---- MODULE Spec2Model ----
(***************************************************************************)
(* Model of pickleball-result (src/src/main.rs): a roster of CSV records   *)
(* is cut into chunks of 4, each chunk is substituted into the master SVG  *)
(* template by replace_svg and rendered to {output_path}_{index}.pdf by a  *)
(* rayon parallel try_for_each.                                            *)
(*                                                                         *)
(* Text is a sequence of one-character strings; str::replace, format! and  *)
(* the decimal rendering of numbers are computed character by character.   *)
(***************************************************************************)
EXTENDS Integers, Sequences, FiniteSets, TLC

VARIABLES
    player_groups,     \* the records read from the CSV (Vec<HashMap<String,String>>)
    master_svg_str,    \* the template text
    tournament_name,   \* args.tournament_name
    render_fails,      \* chunk indexes whose svg_to_pdf call returns Err
    task,              \* per chunk: "pending" | "running" | "done" | "failed" | "skipped"
    full,              \* rayon's try_for_each stop flag: an Err has been observed
    files,             \* the file system: path -> content
    writes,            \* the sequence of paths written, in write order
    events,            \* <<chunk index, outcome>> in completion order
    result,            \* process_player_groups: "running" | "ok" | "err"
    ret                \* result of a direct call of replace_svg

vars == <<player_groups, master_svg_str, tournament_name, render_fails, task,
          full, files, writes, events, result, ret>>

----------------------------------------------------------------------------
(* Bounds                                                                  *)

\* longest roster of a batch run
MaxRoster == 5
\* longest slice handed directly to replace_svg
MaxGroupLen == 2
\* most repetitions of a piece in a template
MaxRepeat == 2

----------------------------------------------------------------------------
(* Text                                                                    *)

Min(a, b) == IF a < b THEN a ELSE b

Digit == <<"0", "1", "2", "3", "4", "5", "6", "7", "8", "9">>

\* format!("{}", n) of an unsigned integer
RECURSIVE ToDecimal(_)
ToDecimal(n) ==
    IF n < 10 THEN <<Digit[n + 1]>>
    ELSE ToDecimal(n \div 10) \o <<Digit[(n % 10) + 1]>>

\* pattern `from` occurs in s starting at index i
MatchAt(s, from, i) ==
    /\ i + Len(from) - 1 <= Len(s)
    /\ \A k \in 1..Len(from) : s[i + k - 1] = from[k]

\* the indexes at or after i where `from` occurs in s
MatchesFrom(s, from, i) == {j \in i..Len(s) : MatchAt(s, from, j)}

SetMin(S) == CHOOSE x \in S : \A y \in S : x <= y

\* str::replace: every non-overlapping match of `from`, left to right; the scan
\* resumes right after a match, so replaced text is never scanned again
RECURSIVE ReplaceFrom(_, _, _, _)
ReplaceFrom(s, from, to, i) ==
    LET found == MatchesFrom(s, from, i) IN
    IF found = {} THEN SubSeq(s, i, Len(s))
    ELSE LET j == SetMin(found) IN
         SubSeq(s, i, j - 1) \o to \o ReplaceFrom(s, from, to, j + Len(from))

Replace(s, from, to) == ReplaceFrom(s, from, to, 1)

\* number of occurrences of pattern t in s
Count(s, t) == Cardinality(MatchesFrom(s, t, 1))

----------------------------------------------------------------------------
(* replace_svg                                                             *)

NAME == <<"N", "A", "M", "E">>

player_key(player_num) == <<"Player1", "Player2", "Player3", "Player4">>[player_num]

\* variant: the number restarts with every record
player_number_per_record(group_index, player_num) == player_num

player_number(group_index, player_num) == group_index * 4 + player_num

player_number_str(n) == <<">", "P", "L", "A", "Y", "E", "R">> \o ToDecimal(n) \o <<"<">>

\* format!(">{}<", value): player_name_str and result_str
Bracket(value) == <<">">> \o value \o <<"<">>

pair_no_key(player_num) == IF player_num = 1 THEN "Pair No1" ELSE "Pair No2"

\* variant: the pair number taken from the player number itself
group_number_by_player(group_index, player_num) == group_index * 2 + player_num

group_number(group_index, player_num) == group_index * 2 + (player_num \div 2) + 1

pair_no_str(n) == <<">", "P", "a", "i", "r", " ", "N", "o">> \o ToDecimal(n) \o <<"<">>

\* the replace calls of one pass of the inner loop, as <<from, to>> in call order
PairReplacements(group_index, group, player_num) ==
    IF /\ player_num \in {1, 3}
       /\ pair_no_key(player_num) \in DOMAIN group
    THEN << <<pair_no_str(group_number(group_index, player_num)),
              Bracket(group[pair_no_key(player_num)])>> >>
    ELSE <<>>

\* variant: a blank value is skipped like an absent key
IterReplacementsSkipBlank(group_index, group, player_num) ==
    IF /\ player_key(player_num) \in DOMAIN group
       /\ group[player_key(player_num)] # <<>>
    THEN << <<player_number_str(player_number(group_index, player_num)),
              Bracket(group[player_key(player_num)])>> >>
         \o PairReplacements(group_index, group, player_num)
    ELSE <<>>

\* variant: an absent key is substituted as the empty name
IterReplacementsDefault(group_index, group, player_num) ==
    << <<player_number_str(player_number(group_index, player_num)),
         Bracket(IF player_key(player_num) \in DOMAIN group
                 THEN group[player_key(player_num)] ELSE <<>>)>> >>
        \o PairReplacements(group_index, group, player_num)

IterReplacements(group_index, group, player_num) ==
    IF player_key(player_num) \in DOMAIN group
    THEN << <<player_number_str(player_number(group_index, player_num)),
              Bracket(group[player_key(player_num)])>> >>
         \o PairReplacements(group_index, group, player_num)
    ELSE <<>>

\* the replace calls of the first n passes of the inner loop (4 passes a record)
RECURSIVE Replacements(_, _)
Replacements(groups, n) ==
    IF n = 0 THEN <<>>
    ELSE Replacements(groups, n - 1)
         \o IterReplacements((n - 1) \div 4, groups[((n - 1) \div 4) + 1], ((n - 1) % 4) + 1)

RECURSIVE ApplyAll(_, _, _)
ApplyAll(s, reps, n) ==
    IF n = 0 THEN s
    ELSE Replace(ApplyAll(s, reps, n - 1), reps[n][1], reps[n][2])

\* svg_str after the first n passes of the inner loop
svg_after(svg_str, groups, n) ==
    LET reps == Replacements(groups, n) IN ApplyAll(svg_str, reps, Len(reps))

Err == [err |-> TRUE, svg |-> <<>>]
Ok(text) == [err |-> FALSE, svg |-> text]

\* variant: a record without any player field is rejected too
replace_svg_strict(svg_str, groups, name) ==
    IF \/ groups = <<>>
       \/ \E p \in 1..Len(groups) :
              \A player_num \in 1..4 : player_key(player_num) \notin DOMAIN groups[p]
    THEN Err
    ELSE Ok(Replace(svg_after(svg_str, groups, 4 * Len(groups)), NAME, name))

replace_svg(svg_str, groups, name) ==
    IF groups = <<>> THEN Err
    ELSE Ok(Replace(svg_after(svg_str, groups, 4 * Len(groups)), NAME, name))

----------------------------------------------------------------------------
(* Inputs                                                                  *)

Al == <<"A", "l">>
Bo == <<"B", "o">>
Cy == <<"C", "y">>
Di == <<"D", "i">>
Blank == <<>>
\* a participant whose name reads like a placeholder, and one that contains NAME
Player2Text == <<"P", "L", "A", "Y", "E", "R", "2">>
NameText == <<"N", "A", "M", "E">>
LabelX == <<"X">>
LabelY == <<"Y">>
Cup == <<"C", "u", "p">>

\* records as HashMap<String, String>: a function from the present keys
FullRecord ==
    [k \in {"Player1", "Player2", "Player3", "Player4", "Pair No1", "Pair No2"} |->
        CASE k = "Player1" -> Al [] k = "Player2" -> Bo [] k = "Player3" -> Cy
          [] k = "Player4" -> Di [] k = "Pair No1" -> LabelX [] OTHER -> LabelY]

BlankRecord ==
    [k \in {"Player1", "Player2", "Player3", "Player4", "Pair No1", "Pair No2"} |->
        CASE k = "Player1" -> Al [] k = "Player2" -> Blank [] k = "Player3" -> Cy
          [] k = "Player4" -> Di [] k = "Pair No1" -> LabelX [] OTHER -> LabelY]

EchoRecord ==
    [k \in {"Player1", "Player2", "Player3", "Player4"} |->
        CASE k = "Player1" -> Player2Text [] k = "Player2" -> Bo
          [] k = "Player3" -> NameText [] OTHER -> Di]

EvenRecord ==
    [k \in {"Player2", "Player4", "Pair No1", "Pair No2"} |->
        CASE k = "Player2" -> Bo [] k = "Player4" -> Di
          [] k = "Pair No1" -> LabelX [] OTHER -> LabelY]

LabelOnlyRecord == [k \in {"Pair No1"} |-> LabelX]

UnitRecords == {FullRecord, BlankRecord, EchoRecord, EvenRecord, LabelOnlyRecord}

SeqsUpTo(S, n) == UNION {[1..m -> S] : m \in 0..n}

ExampleLine ==
    player_number_str(1) \o player_number_str(2) \o player_number_str(3)
        \o player_number_str(4) \o NAME

Pieces ==
    {ExampleLine}
        \cup {player_number_str(n) : n \in {1, 2, 3, 5, 6, 10}}
        \cup {pair_no_str(n) : n \in {1, 2, 3, 4}}

RECURSIVE Repeat(_, _)
Repeat(s, k) == IF k = 0 THEN <<>> ELSE s \o Repeat(s, k - 1)

\* a template: one piece, up to MaxRepeat times, then NAME or nothing
Templates ==
    {Repeat(p, k) \o tail : p \in Pieces, k \in 1..MaxRepeat, tail \in {<<>>, NAME}}

Uncalled == [state |-> "uncalled", err |-> FALSE, svg |-> <<>>]
Returned(r) == [state |-> "returned", err |-> r.err, svg |-> r.svg]

\* the records of one CSV file share its header
RosterRecords == {FullRecord, BlankRecord}

RosterTemplates == {ExampleLine, player_number_str(5) \o pair_no_str(1) \o NAME}

\* args.output_path
OutputBase == <<"o", "u", "t">>

----------------------------------------------------------------------------
(* process_group, svg_to_pdf, process_player_groups                        *)

ChunkSize == 4

\* variant: par_chunks_exact, which drops the short last chunk
par_chunks_exact(s, n) ==
    [i \in 1..(Len(s) \div n) |-> SubSeq(s, (i - 1) * n + 1, i * n)]

\* slice::par_chunks(n).enumerate(): chunk i (from 0) is at index i + 1
par_chunks(s, n) ==
    [i \in 1..((Len(s) + n - 1) \div n) |-> SubSeq(s, (i - 1) * n + 1, Min(i * n, Len(s)))]

\* variant: the group index left out of the file name
OutputFileNoIndex(output_path, group_index) == output_path \o <<".", "p", "d", "f">>

\* format!("{}_{}.pdf", output_path, group_index)
OutputFile(output_path, group_index) ==
    output_path \o <<"_">> \o ToDecimal(group_index) \o <<".", "p", "d", "f">>

\* svg2pdf::to_pdf of the parsed text: the rendering of exactly this text
Render(svg_str) == [pdf |-> svg_str]

\* fs is the file system before the call; fails: the parse or the write returns Err
svg_to_pdf(fs, svg_str, output_path, fails) ==
    IF fails THEN [err |-> TRUE, fs |-> fs]
    ELSE [err |-> FALSE, fs |-> (output_path :> Render(svg_str)) @@ fs]

process_group(fs, svg_str, groups, name, output_path, group_index, fails) ==
    LET svg_result_str == replace_svg(svg_str, groups, name) IN
    IF svg_result_str.err THEN [err |-> TRUE, fs |-> fs]
    ELSE svg_to_pdf(fs, svg_result_str.svg, OutputFile(output_path, group_index), fails)

\* variant: for_each, which discards the closure's result
for_each(tasks) == "ok"

\* what try_for_each returns once every item has been run or dropped
try_for_each(tasks) ==
    IF \E g \in DOMAIN tasks : tasks[g] = "failed" THEN "err" ELSE "ok"

Chunks == par_chunks(player_groups, ChunkSize)
GroupIndexes == 0..(Len(Chunks) - 1)

Init ==
    /\ player_groups \in SeqsUpTo(RosterRecords, MaxRoster)
    /\ master_svg_str \in RosterTemplates
    /\ tournament_name = Cup
    /\ render_fails \in SUBSET GroupIndexes
    /\ task = [g \in GroupIndexes |-> "pending"]
    /\ full = FALSE
    /\ files = <<>>
    /\ writes = <<>>
    /\ events = <<>>
    /\ result = "running"
    /\ ret = Uncalled

\* a worker takes the next item; the stop flag is read before the item is run
Start(g) ==
    /\ result = "running"
    /\ task[g] = "pending"
    /\ ~full
    /\ task' = [task EXCEPT ![g] = "running"]
    /\ UNCHANGED <<player_groups, master_svg_str, tournament_name, render_fails,
                   full, files, writes, events, result, ret>>

\* an item not yet taken when the stop flag is set is dropped without being run
Skip(g) ==
    /\ result = "running"
    /\ task[g] = "pending"
    /\ full
    /\ task' = [task EXCEPT ![g] = "skipped"]
    /\ UNCHANGED <<player_groups, master_svg_str, tournament_name, render_fails,
                   full, files, writes, events, result, ret>>

\* the closure of try_for_each: process_group on chunk g, to its Ok or its Err
Finish(g) ==
    /\ task[g] = "running"
    /\ LET r == process_group(files, master_svg_str, Chunks[g + 1], tournament_name,
                              OutputBase, g, g \in render_fails)
       IN /\ files' = r.fs
          /\ task' = [task EXCEPT ![g] = IF r.err THEN "failed" ELSE "done"]
          /\ full' = (full \/ r.err)
          /\ writes' = IF r.err THEN writes
                       ELSE Append(writes, OutputFile(OutputBase, g))
          /\ events' = Append(events, <<g, IF r.err THEN "failed" ELSE "done">>)
    /\ UNCHANGED <<player_groups, master_svg_str, tournament_name, render_fails,
                   result, ret>>

\* try_for_each returns when no item is pending or running
Return ==
    /\ result = "running"
    /\ \A g \in DOMAIN task : task[g] \in {"done", "failed", "skipped"}
    /\ result' = try_for_each(task)
    /\ UNCHANGED <<player_groups, master_svg_str, tournament_name, render_fails,
                   task, full, files, writes, events, ret>>

Next ==
    \/ \E g \in DOMAIN task : Start(g)
    \/ \E g \in DOMAIN task : Skip(g)
    \/ \E g \in DOMAIN task : Finish(g)
    \/ Return

Spec == Init /\ [][Next]_vars

----------------------------------------------------------------------------
(* Direct calls of process_group on one slice, as index 0. The slice is any *)
(* &[HashMap<String, String>] of the signature: its records need not share *)
(* one header.                                                             *)

CallInit ==
    /\ player_groups \in SeqsUpTo(UnitRecords, MaxGroupLen)
    /\ master_svg_str \in Templates
    /\ tournament_name = Cup
    /\ render_fails = {}
    /\ task = <<>>
    /\ full = FALSE
    /\ files = <<>>
    /\ writes = <<>>
    /\ events = <<>>
    /\ result = "running"
    /\ ret = Uncalled

CallProcessGroup ==
    /\ ret.state = "uncalled"
    /\ ret' = Returned(replace_svg(master_svg_str, player_groups, tournament_name))
    /\ files' = process_group(files, master_svg_str, player_groups, tournament_name,
                              OutputBase, 0, FALSE).fs
    /\ UNCHANGED <<player_groups, master_svg_str, tournament_name, render_fails,
                   task, full, writes, events, result>>

CallNext == CallProcessGroup

CallSpec == CallInit /\ [][CallNext]_vars

----------------------------------------------------------------------------
(* Vocabulary of the properties                                            *)

Called == ret.state = "returned"
Answered == Called /\ ~ret.err

Fields == <<"Player1", "Player2", "Player3", "Player4">>
Labels == <<"Pair No1", "Pair No2">>

\* PLAYER and pair numbers a slice of MaxGroupLen + 1 records can address
PlayerNumbers == 1..(4 * (MaxGroupLen + 1))
PairNumbers == 1..(2 * (MaxGroupLen + 1))

\* record p (from 1) of the slice supplies field s
Supplies(groups, p, s) == p \in 1..Len(groups) /\ Fields[s] \in DOMAIN groups[p]

\* record p supplies the label of pair slot q (1 or 2) and the player that carries it
SuppliesPair(groups, p, q) ==
    /\ p \in 1..Len(groups)
    /\ Labels[q] \in DOMAIN groups[p]
    /\ Fields[2 * q - 1] \in DOMAIN groups[p]

PlayerHasValue(groups, n) ==
    \E p \in 1..Len(groups), s \in 1..4 : n = 4 * (p - 1) + s /\ Supplies(groups, p, s)

PairHasValue(groups, k) ==
    \E p \in 1..Len(groups), q \in 1..2 : k = 2 * (p - 1) + q /\ SuppliesPair(groups, p, q)

AllReplacements(groups) == Replacements(groups, 4 * Len(groups))
Range(f) == {f[i] : i \in DOMAIN f}
PlayerTokens == {player_number_str(n) : n \in 1..16}
PairTokens == {pair_no_str(k) : k \in 1..8}

\* one left-to-right pass over s replacing each listed pattern where it stands
AnyMatchesFrom(s, reps, i) ==
    {j \in i..Len(s) : \E k \in 1..Len(reps) : MatchAt(s, reps[k][1], j)}

RECURSIVE SimultaneousFrom(_, _, _)
SimultaneousFrom(s, reps, i) ==
    LET found == AnyMatchesFrom(s, reps, i) IN
    IF found = {} THEN SubSeq(s, i, Len(s))
    ELSE LET j == SetMin(found)
             k == SetMin({m \in 1..Len(reps) : MatchAt(s, reps[m][1], j)})
         IN SubSeq(s, i, j - 1) \o reps[k][2]
                \o SimultaneousFrom(s, reps, j + Len(reps[k][1]))

Simultaneous(s, reps) == SimultaneousFrom(s, reps, 1)

\* every record of the slice supplies 4 distinct non-empty player values
DistinctPlayers(groups) ==
    \A p \in 1..Len(groups) :
        /\ \A s \in 1..4 : Supplies(groups, p, s) /\ groups[p][Fields[s]] # <<>>
        /\ \A s, t \in 1..4 : s # t => groups[p][Fields[s]] # groups[p][Fields[t]]

Mark == <<"#">>

\* the text returned when the occurrences of tok are hidden from the call
AroundToken(tok) ==
    Replace(replace_svg(Replace(master_svg_str, tok, Mark), player_groups,
                        tournament_name).svg, Mark, tok)

----------------------------------------------------------------------------
(* Direct calls: C2, C3, C4, C5, C9, C10 (checked under CallSpec)          *)

\* C2 as stated: a record whose Player2 field is blank leaves every occurrence
\* of that slot's >PLAYERn< token of the template in the returned text.
C2_BlankKeepsPlaceholder ==
    Answered =>
        \A p \in 1..Len(player_groups) :
            (Supplies(player_groups, p, 2) /\ player_groups[p]["Player2"] = <<>>)
                => Count(ret.svg, player_number_str(4 * (p - 1) + 2))
                       >= Count(master_svg_str, player_number_str(4 * (p - 1) + 2))

\* C2 amended: a blank Player2 field is substituted like any value: replace_svg
\* calls replace(>PLAYERn<, "><") for its slot and no occurrence of the token is
\* left right after that call; the call is skipped only when the record has no
\* Player2 key.
C2_BlankIsSubstituted ==
    Answered =>
        \A p \in 1..Len(player_groups) :
            LET tok == player_number_str(4 * (p - 1) + 2) IN
            /\ (Supplies(player_groups, p, 2) /\ player_groups[p]["Player2"] = <<>>)
                   => /\ <<tok, <<">", "<">> >> \in Range(AllReplacements(player_groups))
                      /\ Count(svg_after(master_svg_str, player_groups, 4 * (p - 1) + 2),
                               tok) = 0
            /\ ~Supplies(player_groups, p, 2)
                   => \A r \in Range(AllReplacements(player_groups)) : r[1] # tok

C2_Witness ==
    /\ Answered
    /\ \E p \in 1..Len(player_groups) :
           /\ Supplies(player_groups, p, 2)
           /\ player_groups[p]["Player2"] = <<>>
           /\ Count(master_svg_str, player_number_str(4 * (p - 1) + 2)) > 0
           /\ Count(ret.svg, player_number_str(4 * (p - 1) + 2)) = 0
           /\ Count(ret.svg, <<">", "<">>) > 0

\* C3 as stated: when every record supplies 4 distinct non-empty player values,
\* the text left by the substitution loop is the template with each token
\* replaced in place by its own slot's value, nothing inserted being replaced
\* again.
C3_NoCrossContamination ==
    (Answered /\ DistinctPlayers(player_groups)) =>
        svg_after(master_svg_str, player_groups, 4 * Len(player_groups))
            = Simultaneous(master_svg_str, AllReplacements(player_groups))

\* C4 as stated: the returned text is one simultaneous substitution of the
\* template: tokens with a value by >value<, NAME by the tournament name, the
\* rest unchanged.
C4_SimultaneousSubstitution ==
    Answered =>
        ret.svg = Simultaneous(master_svg_str,
                               Append(AllReplacements(player_groups),
                                      <<NAME, tournament_name>>))

\* C5: every placeholder of the template whose slot has no value stands at the
\* same place in the returned text, and when no token of the template has a
\* value the returned text is the template with NAME replaced.
C5_UnmatchedUntouched ==
    Answered =>
        /\ \A n \in PlayerNumbers :
               (~PlayerHasValue(player_groups, n)
                    /\ Count(master_svg_str, player_number_str(n)) > 0)
                   => /\ ret.svg = AroundToken(player_number_str(n))
                      /\ Count(ret.svg, player_number_str(n))
                             >= Count(master_svg_str, player_number_str(n))
        /\ \A k \in PairNumbers :
               (~PairHasValue(player_groups, k)
                    /\ Count(master_svg_str, pair_no_str(k)) > 0)
                   => /\ ret.svg = AroundToken(pair_no_str(k))
                      /\ Count(ret.svg, pair_no_str(k))
                             >= Count(master_svg_str, pair_no_str(k))
        /\ ( /\ \A n \in PlayerNumbers :
                    Count(master_svg_str, player_number_str(n)) > 0
                        => ~PlayerHasValue(player_groups, n)
             /\ \A k \in PairNumbers :
                    Count(master_svg_str, pair_no_str(k)) > 0
                        => ~PairHasValue(player_groups, k) )
               => ret.svg = Replace(master_svg_str, NAME, tournament_name)

C5_Witness ==
    /\ Answered
    /\ ~PlayerHasValue(player_groups, 5)
    /\ PlayerHasValue(player_groups, 1)
    /\ Count(master_svg_str, player_number_str(5)) = 2
    /\ Count(ret.svg, player_number_str(5)) = 2
    /\ Count(master_svg_str, NAME) > 0
    /\ ret.svg # master_svg_str

\* C9 as stated: replace_svg returns the empty-group error when the slice has
\* no record and also when one of its records supplies none of Player1..Player4.
C9_EmptyFieldSetFails ==
    Called =>
        ( ( \/ player_groups = <<>>
            \/ \E p \in 1..Len(player_groups) :
                   \A s \in 1..4 : ~Supplies(player_groups, p, s) )
          => ret.err )

\* C9 amended: replace_svg returns the error, and no text, exactly when the
\* slice has no record, and then nothing is written; a record that supplies
\* none of Player1..Player4 is no error: text is returned and no replace call
\* is made for that record's tokens.
C9_FailsOnlyOnEmptySlice ==
    Called =>
        /\ ret.err <=> (player_groups = <<>>)
        /\ ret.err => (ret.svg = <<>> /\ files = <<>>)
        /\ \A p \in 1..Len(player_groups) :
               (\A s \in 1..4 : ~Supplies(player_groups, p, s))
                   => \A r \in Range(AllReplacements(player_groups)) :
                          /\ r[1] \notin {player_number_str(4 * (p - 1) + s) : s \in 1..4}
                          /\ r[1] \notin {pair_no_str(2 * (p - 1) + q) : q \in 1..2}

C9_Witness ==
    /\ Called
    /\ ~ret.err
    /\ \E p \in 1..Len(player_groups) :
           /\ \A s \in 1..4 : ~Supplies(player_groups, p, s)
           /\ "Pair No1" \in DOMAIN player_groups[p]
           /\ Count(master_svg_str, pair_no_str(2 * (p - 1) + 1)) > 0
           /\ Count(ret.svg, pair_no_str(2 * (p - 1) + 1)) > 0
    /\ DOMAIN files # {}

\* C10: the pair tokens replaced are exactly >Pair No{2p+1}< for a record at
\* position p with Player1 and "Pair No1", and >Pair No{2p+2}< for one with
\* Player3 and "Pair No2", each by >label<, leaving no occurrence right after
\* the call; every other pair token of the template is still there.
C10_PairWithItsPlayer ==
    Answered =>
        /\ {r \in Range(AllReplacements(player_groups)) : r[1] \in PairTokens}
               = {<<pair_no_str(2 * (p - 1) + q), Bracket(player_groups[p][Labels[q]])>> :
                      <<p, q>> \in {x \in (1..Len(player_groups)) \X (1..2) :
                                       SuppliesPair(player_groups, x[1], x[2])}}
        /\ \A p \in 1..Len(player_groups), q \in 1..2 :
               SuppliesPair(player_groups, p, q)
                   => Count(svg_after(master_svg_str, player_groups,
                                      4 * (p - 1) + 2 * q - 1),
                            pair_no_str(2 * (p - 1) + q)) = 0
        /\ \A k \in PairNumbers :
               ~PairHasValue(player_groups, k)
                   => Count(ret.svg, pair_no_str(k)) >= Count(master_svg_str, pair_no_str(k))

C10_Witness ==
    /\ Answered
    /\ Len(player_groups) = 2
    /\ SuppliesPair(player_groups, 2, 2)
    /\ ~SuppliesPair(player_groups, 1, 1)
    /\ "Pair No1" \in DOMAIN player_groups[1]
    /\ Count(master_svg_str, pair_no_str(4)) = 2
    /\ Count(ret.svg, pair_no_str(4)) = 0
    /\ Count(ret.svg, Bracket(player_groups[2]["Pair No2"])) = 2

----------------------------------------------------------------------------
(* Batch runs: C1, C6, C7, C8 (checked under Spec)                         *)

Processed(g) == task[g] \in {"done", "failed"}

\* records 4i .. min(4i+3, N-1) of the roster, counted from 0
ExpectedSlice(i) ==
    SubSeq(player_groups, 4 * i + 1, Min(4 * i + 4, Len(player_groups)))

ExpectedPath(i) == OutputBase \o <<"_">> \o ToDecimal(i) \o <<".", "p", "d", "f">>

ExpectedGroups == (Len(player_groups) + 3) \div 4

ExpectedArtifact(i) ==
    Render(replace_svg(master_svg_str, ExpectedSlice(i), tournament_name).svg)

\* the artifacts of the groups whose rendering does not fail
AllArtifacts ==
    [path \in {ExpectedPath(i) : i \in (0..(ExpectedGroups - 1)) \ render_fails} |->
        ExpectedArtifact(CHOOSE i \in 0..(ExpectedGroups - 1) : ExpectedPath(i) = path)]

ReplacedPlayerTokens(groups) ==
    {r[1] : r \in {x \in Range(AllReplacements(groups)) : x[1] \in PlayerTokens}}

\* C1 as stated: the PLAYER tokens replaced for the group of index g are
\* >PLAYERn< with n = g*4 + position + 1, position in 0..3.
C1_GlobalNumbering ==
    \A g \in DOMAIN task :
        Processed(g) =>
            ReplacedPlayerTokens(Chunks[g + 1])
                \subseteq {player_number_str(4 * g + q + 1) : q \in 0..3}

\* C1 amended: the PLAYER tokens replaced for a group are >PLAYERn< with
\* n = 4p + s for the record at position p (from 0) of the slice handed to
\* replace_svg and its field Player s, whatever the group's index: the
\* numbering restarts at 1 for each document.
C1_NumberingRestarts ==
    \A g \in DOMAIN task :
        Processed(g) =>
            ReplacedPlayerTokens(Chunks[g + 1])
                = {player_number_str(4 * (x[1] - 1) + x[2]) :
                       x \in {y \in (1..Len(ExpectedSlice(g))) \X (1..4) :
                                 Supplies(ExpectedSlice(g), y[1], y[2])}}

C1_Witness ==
    /\ 1 \in DOMAIN task
    /\ task[1] = "done"
    /\ task[0] = "done"
    /\ Count(master_svg_str, player_number_str(1)) > 0
    /\ Count(files[ExpectedPath(1)].pdf, player_number_str(1)) = 0
    /\ Count(files[ExpectedPath(1)].pdf, Bracket(Al)) > 0
    /\ Count(files[ExpectedPath(0)].pdf, Bracket(Al)) > 0

\* C6: a roster of N records dispatches ceil(N/4) groups; no path is written
\* twice; a run that ends successfully leaves exactly the ceil(N/4) artifacts
\* {base}_{i}.pdf, artifact i made from records 4i..min(4i+3, N-1); an empty
\* roster dispatches nothing, writes nothing and cannot fail.
C6_OneArtifactPerGroup ==
    /\ DOMAIN task = 0..(ExpectedGroups - 1)
    /\ \A i, j \in 1..Len(writes) : i # j => writes[i] # writes[j]
    /\ result = "ok" =>
           /\ DOMAIN files = {ExpectedPath(i) : i \in 0..(ExpectedGroups - 1)}
           /\ Cardinality(DOMAIN files) = ExpectedGroups
           /\ Len(writes) = ExpectedGroups
           /\ \A i \in 0..(ExpectedGroups - 1) :
                  files[ExpectedPath(i)] = ExpectedArtifact(i)
    /\ player_groups = <<>> => (DOMAIN files = {} /\ writes = <<>> /\ result # "err")

C6_Witness ==
    /\ result = "ok"
    /\ Len(player_groups) = 5
    /\ Cardinality(DOMAIN files) = 2
    /\ player_groups[5] # player_groups[1]

\* C7 as stated: the artifacts at the end of a run are the same in every run
\* of the same inputs; a run in which every task starts before any failure is
\* seen leaves AllArtifacts, so every run does.
C7_SameArtifactsEveryRun ==
    result # "running" => files = AllArtifacts

\* C7 amended: any two runs of the same inputs that end successfully end with
\* the same artifacts, whatever the completion order; in a run that fails each
\* artifact written has the path and content the inputs determine, but which
\* groups' artifacts exist depends on the scheduling.
C7_SameArtifactsWhenOk ==
    /\ result = "ok" => files = AllArtifacts
    /\ \A path \in DOMAIN files :
           path \in DOMAIN AllArtifacts /\ files[path] = AllArtifacts[path]

C7_Witness ==
    /\ result = "ok"
    /\ events = << <<1, "done">>, <<0, "done">> >>
    /\ files = AllArtifacts
    /\ files[ExpectedPath(0)] # files[ExpectedPath(1)]

\* C8: a run in which a group failed ends in failure; a written artifact is
\* never removed or changed; a task in flight is never dropped or restarted:
\* it leaves that state only by its own completion or failure, and the run
\* ends only when no task is in flight.
C8_FailFastNoRollback ==
    /\ []((result # "running" /\ \E g \in DOMAIN task : task[g] = "failed")
              => result = "err")
    /\ [][\A path \in DOMAIN files :
              path \in DOMAIN files' /\ files'[path] = files[path]]_vars
    /\ [][\A g \in DOMAIN task :
              task[g] = "running" => task'[g] \in {"running", "done", "failed"}]_vars
    /\ [](result # "running" => \A g \in DOMAIN task : task[g] # "running")

C8_Witness ==
    /\ result = "err"
    /\ events = << <<1, "failed">>, <<0, "done">> >>
    /\ DOMAIN files = {ExpectedPath(0)}

====
